---- MODULE Spec2Model ----
(***************************************************************************)
(* Eloquent::Esp32cam::Applications::LineCrossingCounter                   *)
(* (src/esp32cam/apps/LineCrossingCounter.h) as a state machine.           *)
(*                                                                         *)
(* The float members _x, _miny, _maxy are kept in thousandths (the value   *)
(* 0.999 is 999, the value 24.0 is 24000), so that "v >= 1", "v / 8" and   *)
(* "v * width" followed by the conversion to uint16_t are exact integer    *)
(* computations.  _motion[i + 3] is written motion[i], indexed by the      *)
(* signed offset i of the bin.                                             *)
(***************************************************************************)
EXTENDS Integers, FiniteSets, Sequences, TLC

VARIABLES
    lineX,        \* _x        (thousandths)
    miny,         \* _miny     (thousandths)
    maxy,         \* _maxy     (thousandths)
    lag,          \* _lag      (uint8_t)
    sparsity,     \* _sparsity (uint8_t)
    t,            \* _t        (uint16_t)
    motion,       \* _motion[7], indexed -3..3
    ltrCount,     \* _ltrCount (uint16_t)
    rtlCount,     \* _rtlCount (uint16_t)
    error,        \* HasErrorMessage: the status string
    sinceTouch,   \* Debounces: time elapsed since touch(), saturated
    op,           \* the last call that returned a bool
    ret,          \* what that call returned
    wrapped,      \* history: _t has wrapped from 65000 to 1
    motion0,      \* history: the content of _motion after construction
    stamped,      \* history: the bins update() has written
    quiet,        \* history: no update() has been shown a foreground cell
    idle          \* history: the successful update() calls since the last
                  \*          one that stamped a bin, up to IdleCap

vars == <<lineX, miny, maxy, lag, sparsity, t, motion, ltrCount, rtlCount,
          error, sinceTouch, op, ret, wrapped, motion0, stamped, quiet, idle>>

cfgVars == <<lineX, miny, maxy, lag, sparsity>>
histVars == <<wrapped, motion0, stamped, quiet, idle>>

-----------------------------------------------------------------------------
(* Program constants *)

\* if (_t > 65000) _t = 1;
TickCeiling == 65000
\* _lag(3)
DefaultLag == 3
\* _sparsity(4)
DefaultSparsity == 4
\* _maxy(0.999), in thousandths
DefaultMaxY == 999
\* gt(): return 10
StrongScore == 10
\* crossed > 20
AcceptThreshold == 20
\* uint16_t _ltrCount, _rtlCount: the largest value of the type
CountMax == 65535

(* Bounds of the model *)

\* Spec follows update() tick by tick while _t < MaxT ...
MaxT == 2
\* ... SpecRun while _t < MaxTRun ...
MaxTRun == 6
\* ... and Spec again at TickCeiling, through the wrap of the tick, while
\* _t < AfterWrap
AfterWrap == 1
\* a frame shows at most one object, a run of up to MaxObjectWidth cells of a row
MaxObjectWidth == 2
\* the queries are followed while they have accepted fewer than MaxCount times
MaxCount == 2
\* Debounces: the cooldown, in steps of the clock
DebounceInterval == 1

(* The arguments the setters are called with (floats in thousandths) *)
LineArgs == {0, 24000}
AboveArgs == {0, 500}
BelowArgs == {0, 999}
LagArgs == {1}
SparsityArgs == {1}
\* the lines SpecRun starts with: columns 1 and 3
RunLineArgs == {8000, 24000}
\* the line SpecBand starts with: column 2
BandLine == 8000 + 8000
\* what the 32-bit words of the memory _motion is laid over may hold, as the
\* pair of their half-words: zeroes, a small number, two different half-words
LeftoverWords == {<<0, 0>>, <<1, 0>>, <<2, 1>>}

\* Motion::Detector: a grid of 5 x 2 cells
getWidth == 5
getHeight == 2

\* idle is counted up to the longest span gt() looks back over, 2 * _lag + 1
\* update() calls, for the lags of this model
IdleCap == 2 * DefaultLag + 1

Bins == -3..3
ZeroBuffer == [i \in Bins |-> 0]

\* isForeground(col, row) is asked for col in 0..width: a frame also holds what the
\* detector answers for the column one past the grid
Cells == (0..getWidth) \X (0..(getHeight - 1))

\* one object: the cells c .. c + w - 1 of row r that are cells of the frame
Object(c, w, r) == {cell \in Cells : cell[2] = r /\ cell[1] >= c /\ cell[1] < c + w}

Frames ==
    {{}} \cup {Object(c, w, r) : c \in 0..getWidth, w \in 1..MaxObjectWidth,
                                r \in 0..(getHeight - 1)}

-----------------------------------------------------------------------------
(* Collaborators that are not part of the source file *)

\* Motion::Detector
isForeground(fg, col, row) == <<col, row>> \in fg

\* HasErrorMessage::setErrorMessage returns whether the message is empty
setErrorMessage(msg) == msg = ""

\* Debounces
debounced == sinceTouch >= DebounceInterval

-----------------------------------------------------------------------------
(* update(), lines 90-136 *)

\* _x >= 1 ? _x / 8 : _x * width, converted to uint16_t
ResolveX == IF lineX >= 1000 THEN lineX \div 8000 ELSE (lineX * getWidth) \div 1000

\* height - (v >= 1 ? v / 8 : v * height), converted to uint16_t
ResolveY(v) ==
    IF v >= 1000 THEN (getHeight * 8000 - v) \div 8000
    ELSE (getHeight * 1000 - v * getHeight) \div 1000

AboveRow == ResolveY(miny)
BelowRow == ResolveY(maxy)

EdgeMessage == "x-coordinate must be >= 8"
BoundsMessage == "above/below limits mismatch"

\* faulty variant: the two tests in the other order
Validate_BoundsFirst ==
    IF BelowRow >= AboveRow THEN BoundsMessage
    ELSE IF ResolveX < 1 THEN EdgeMessage
    ELSE ""

\* the test of lines 97-101: "" when the configuration passes
Validate ==
    IF ResolveX < 1 THEN EdgeMessage
    ELSE IF BelowRow >= AboveRow THEN BoundsMessage
    ELSE ""

\* faulty variant: the tick is left to run through its 16 bits
NextTick_NoWrap(tt) == (tt + 1) % 65536

\* _t += 1; if (_t > 65000) _t = 1;
NextTick(tt) ==
    LET inc == (tt + 1) % 65536
    IN  IF inc > TickCeiling THEN 1 ELSE inc

\* for (y = below; y < above; y++) if (isForeground(col, y)) ...
ColumnHit(fg, col) ==
    \E y \in BelowRow..(AboveRow - 1) : isForeground(fg, col, y)

\* the loop over j of lines 117-132 for bin i, from column j on; m is _motion[i + 3]
RECURSIVE ScanColumns(_, _, _, _, _)
ScanColumns(fg, tt, i, j, m) ==
    IF j >= sparsity THEN m
    ELSE LET dx == i * sparsity + j
             col == dx + ResolveX
         IN  IF col < 0 \/ col > getWidth
             THEN ScanColumns(fg, tt, i, j + 1, m)
             ELSE LET m2 == IF ColumnHit(fg, col) THEN tt ELSE m
                  IN  IF m2 # 0 THEN m2
                      ELSE ScanColumns(fg, tt, i, j + 1, m2)

\* the body of the loop over i of lines 110-133: the new value of _motion[i + 3]
\* faulty variant: a bin is scanned whatever its slot holds
ScanBin_NoFreshTest(fg, tt, i) ==
    IF i = 0 THEN motion[i]
    ELSE ScanColumns(fg, tt, i, 0, motion[i])

ScanBin(fg, tt, i) ==
    IF i = 0 THEN motion[i]
    ELSE IF motion[i] >= tt - lag THEN motion[i]
    ELSE ScanColumns(fg, tt, i, 0, motion[i])

\* the rows of column col that the loop of lines 123-128 passes to
\* isForeground: from below upwards, up to the first foreground cell
ProbedRows(fg, col) ==
    {y \in BelowRow..(AboveRow - 1) :
        \A z \in BelowRow..(y - 1) : ~isForeground(fg, col, z)}

\* the columns of bin i that the loop of lines 117-132 passes to
\* isForeground, from column j on, the slot holding m
RECURSIVE ProbedColumns(_, _, _, _, _)
ProbedColumns(fg, tt, i, j, m) ==
    IF j >= sparsity THEN {}
    ELSE LET dx == i * sparsity + j
             col == dx + ResolveX
         IN  IF col < 0 \/ col > getWidth THEN ProbedColumns(fg, tt, i, j + 1, m)
             ELSE LET m2 == IF ColumnHit(fg, col) THEN tt ELSE m
                  IN  {col} \cup (IF m2 # 0 THEN {}
                                  ELSE ProbedColumns(fg, tt, i, j + 1, m2))

\* the cells (dx + x, y) that update() passes to isForeground at tick tt
Probes(fg, tt) ==
    {cell \in (0..(getWidth + 1)) \X (0..getHeight) :
        \E i \in Bins \ {0} :
            /\ ~(motion[i] >= tt - lag)
            /\ cell[1] \in ProbedColumns(fg, tt, i, 0, motion[i])
            /\ cell[2] \in ProbedRows(fg, cell[1])}

\* faulty variant: the tick is advanced before the configuration is tested
UpdateFails_TickFirst(msg) ==
    /\ error' = msg
    /\ ret' = setErrorMessage(msg)
    /\ t' = (t + 1) % 65536
    /\ UNCHANGED <<motion, wrapped, stamped, quiet, idle>>

\* return setErrorMessage(...), lines 97-101
UpdateFails(msg) ==
    /\ error' = msg
    /\ ret' = setErrorMessage(msg)
    /\ UNCHANGED <<t, motion, wrapped, stamped, quiet, idle>>

UpdateSucceeds(fg) ==
    LET tt == NextTick(t)
        scanned == [i \in Bins |-> ScanBin(fg, tt, i)]
    IN  /\ t' = tt
        /\ motion' = scanned
        /\ error' = ""
        /\ ret' = setErrorMessage("")
        /\ wrapped' = (wrapped \/ tt < t)
        /\ stamped' = stamped \cup {i \in Bins : scanned[i] # motion[i]}
        /\ quiet' = (quiet /\ fg = {})
        /\ idle' = (IF scanned # motion THEN 0
                    ELSE IF idle < IdleCap THEN idle + 1 ELSE idle)

update ==
    /\ op' = "update"
    /\ UNCHANGED <<cfgVars, ltrCount, rtlCount, sinceTouch, motion0>>
    /\ \E fg \in Frames :
          IF Validate # "" THEN UpdateFails(Validate) ELSE UpdateSucceeds(fg)

\* the part of the tick range a specification follows
TickFollowed(maxT) ==
    \/ ~wrapped /\ t < maxT
    \/ ~wrapped /\ t = TickCeiling
    \/ wrapped /\ t < AfterWrap

-----------------------------------------------------------------------------
(* The successive update() calls, lines 90-136, on frames without foreground   *)
(* that take the tick from the low range to TickCeiling, as one step: nothing  *)
(* is stamped, and the last call returns success.                              *)
updateIdleRun ==
    /\ Validate = ""
    /\ t < TickCeiling
    /\ ~wrapped
    /\ t' = TickCeiling
    /\ error' = ""
    /\ ret' = setErrorMessage("")
    /\ op' = "update"
    /\ idle' = IdleCap
    /\ UNCHANGED <<cfgVars, motion, ltrCount, rtlCount, sinceTouch, wrapped,
                   motion0, stamped, quiet>>

-----------------------------------------------------------------------------
(* The setters, lines 44-84 *)

lineAt(v) ==
    /\ lineX' = v
    /\ UNCHANGED <<miny, maxy, lag, sparsity>>

above(v) ==
    /\ miny' = v
    /\ UNCHANGED <<lineX, maxy, lag, sparsity>>

below(v) ==
    /\ maxy' = v
    /\ UNCHANGED <<lineX, miny, lag, sparsity>>

setLag(v) ==
    /\ lag' = v % 256
    /\ UNCHANGED <<lineX, miny, maxy, sparsity>>

setSparsity(v) ==
    /\ sparsity' = v % 256
    /\ UNCHANGED <<lineX, miny, maxy, lag>>

configure ==
    /\ \/ \E v \in LineArgs : lineAt(v)
       \/ \E v \in AboveArgs : above(v)
       \/ \E v \in BelowArgs : below(v)
       \/ \E v \in LagArgs : setLag(v)
       \/ \E v \in SparsityArgs : setSparsity(v)
    /\ UNCHANGED <<t, motion, ltrCount, rtlCount, error, sinceTouch, op, ret,
                   histVars>>

-----------------------------------------------------------------------------
(* The crossing queries, lines 143-176 and 236-248 *)

\* faulty variant: expiry is tested on the stamp of b
gt_ExpiryOfEarlier(a, b) ==
    IF motion[a] = 0 \/ motion[b] = 0 \/ motion[b] < t - 2 * lag THEN 0
    ELSE IF motion[a] > motion[b] /\ motion[a] - motion[b] <= lag THEN StrongScore
    ELSE IF motion[a] >= motion[b] /\ motion[a] - motion[b] <= lag THEN 1
    ELSE 0

\* gt(a, b) over the buffer m: the operands are promoted to int, so
\* _t - 2 * _lag may be negative
gtOn(m, a, b) ==
    IF m[a] = 0 \/ m[b] = 0 \/ m[a] < t - 2 * lag THEN 0
    ELSE IF m[a] > m[b] /\ m[a] - m[b] <= lag THEN StrongScore
    ELSE IF m[a] >= m[b] /\ m[a] - m[b] <= lag THEN 1
    ELSE 0

gt(a, b) == gtOn(motion, a, b)

\* const uint8_t crossed = gt(-2, -3) + gt(-1, -2) + gt(1, -1) + gt(2, 1);
\* over the buffer m
LtrCrossedOn(m) ==
    (gtOn(m, -2, -3) + gtOn(m, -1, -2) + gtOn(m, 1, -1) + gtOn(m, 2, 1)) % 256

LtrCrossed == LtrCrossedOn(motion)

\* faulty variant: the pairs of the other direction, not mirrored
RtlCrossed_Unmirrored == (gt(-2, -3) + gt(-1, -2) + gt(1, -1) + gt(2, 1)) % 256

\* const uint8_t crossed = gt(-2, -1) + gt(-1, 1) + gt(1, 2) + gt(2, 3);
RtlCrossed == (gt(-2, -1) + gt(-1, 1) + gt(1, 2) + gt(2, 3)) % 256

\* crossed > 20 && (crossed % 10) > 0
Accepts(crossed) == crossed > AcceptThreshold /\ (crossed % 10) > 0

\* the part of the counters' range a specification follows: the first
\* acceptances, and the one made with the counter at the top of its type
CountFollowed(own) == ltrCount + rtlCount < MaxCount \/ own = CountMax

\* faulty variant: the counter is incremented before the evidence is tested
crossedFromLeftToRight_CountsFirst ==
    /\ CountFollowed(ltrCount)
    /\ IF ~debounced
       THEN /\ ret' = FALSE
            /\ UNCHANGED <<ltrCount, sinceTouch>>
       ELSE /\ ltrCount' = (ltrCount + 1) % 65536
            /\ IF Accepts(LtrCrossed)
               THEN sinceTouch' = 0 /\ ret' = TRUE
               ELSE sinceTouch' = sinceTouch /\ ret' = FALSE
    /\ op' = "ltr"
    /\ UNCHANGED <<cfgVars, t, motion, rtlCount, error, histVars>>

crossedFromLeftToRight ==
    /\ CountFollowed(ltrCount)
    /\ IF ~debounced
       THEN /\ ret' = FALSE
            /\ UNCHANGED <<ltrCount, sinceTouch>>
       ELSE IF Accepts(LtrCrossed)
       THEN /\ ltrCount' = (ltrCount + 1) % 65536
            /\ sinceTouch' = 0
            /\ ret' = TRUE
       ELSE /\ ret' = FALSE
            /\ UNCHANGED <<ltrCount, sinceTouch>>
    /\ op' = "ltr"
    /\ UNCHANGED <<cfgVars, t, motion, rtlCount, error, histVars>>

\* faulty variant: the cooldown is not consulted
crossedFromRightToLeft_NoDebounce ==
    /\ CountFollowed(rtlCount)
    /\ IF Accepts(RtlCrossed)
       THEN /\ rtlCount' = (rtlCount + 1) % 65536
            /\ sinceTouch' = 0
            /\ ret' = TRUE
       ELSE /\ ret' = FALSE
            /\ UNCHANGED <<rtlCount, sinceTouch>>
    /\ op' = "rtl"
    /\ UNCHANGED <<cfgVars, t, motion, ltrCount, error, histVars>>

crossedFromRightToLeft ==
    /\ CountFollowed(rtlCount)
    /\ IF ~debounced
       THEN /\ ret' = FALSE
            /\ UNCHANGED <<rtlCount, sinceTouch>>
       ELSE IF Accepts(RtlCrossed)
       THEN /\ rtlCount' = (rtlCount + 1) % 65536
            /\ sinceTouch' = 0
            /\ ret' = TRUE
       ELSE /\ ret' = FALSE
            /\ UNCHANGED <<rtlCount, sinceTouch>>
    /\ op' = "rtl"
    /\ UNCHANGED <<cfgVars, t, motion, ltrCount, error, histVars>>

-----------------------------------------------------------------------------
(* The successive crossedFromLeftToRight() calls, lines 143-156, each made    *)
(* once the cooldown has elapsed and with no update() in between, that take   *)
(* _ltrCount to the top of its type, as one step: every call evaluates the    *)
(* same buffer at the same tick, so every call accepts.                       *)
crossedFromLeftToRightRun ==
    /\ ltrCount + rtlCount < MaxCount
    /\ debounced
    /\ Accepts(LtrCrossed)
    /\ ltrCount' = CountMax
    /\ sinceTouch' = 0
    /\ ret' = TRUE
    /\ op' = "ltr"
    /\ UNCHANGED <<cfgVars, t, motion, rtlCount, error, histVars>>

(* The same for crossedFromRightToLeft(), lines 163-176 *)
crossedFromRightToLeftRun ==
    /\ ltrCount + rtlCount < MaxCount
    /\ debounced
    /\ Accepts(RtlCrossed)
    /\ rtlCount' = CountMax
    /\ sinceTouch' = 0
    /\ ret' = TRUE
    /\ op' = "rtl"
    /\ UNCHANGED <<cfgVars, t, motion, ltrCount, error, histVars>>

-----------------------------------------------------------------------------
\* Debounces: the clock advances
wait ==
    /\ sinceTouch < DebounceInterval
    /\ sinceTouch' = sinceTouch + 1
    /\ UNCHANGED <<cfgVars, t, motion, ltrCount, rtlCount, error, op, ret,
                   histVars>>

-----------------------------------------------------------------------------
\* the constructor, lines 26-37: _motion is not in the initialiser list, so it
\* holds what the memory held: zeroes in static storage, and here the two
\* half-words of a repeated 32-bit word otherwise
InitBuffers ==
    {[i \in Bins |-> IF i % 2 = 0 THEN w[1] ELSE w[2]] : w \in LeftoverWords}

InitWith(buffer) ==
    /\ lineX = 0
    /\ miny = 0
    /\ maxy = DefaultMaxY
    /\ t = 0
    /\ lag = DefaultLag
    /\ sparsity = DefaultSparsity
    /\ ltrCount = 0
    /\ rtlCount = 0
    /\ motion = buffer
    /\ error = ""
    /\ sinceTouch = DebounceInterval
    /\ op = "new"
    /\ ret = TRUE
    /\ wrapped = FALSE
    /\ motion0 = buffer
    /\ stamped = {}
    /\ quiet = TRUE
    /\ idle = 0

Init == \E buffer \in InitBuffers : InitWith(buffer)

Next ==
    \/ configure
    \/ TickFollowed(MaxT) /\ update
    \/ updateIdleRun
    \/ crossedFromLeftToRight
    \/ crossedFromRightToLeft
    \/ wait

Spec == Init /\ [][Next]_vars

\* a counter after lineAt(v), lag(1) and sparsity(1), then driven by update()
\* and the queries alone
InitRunWith(buffer) ==
    /\ lineX \in RunLineArgs
    /\ miny = 0
    /\ maxy = DefaultMaxY
    /\ t = 0
    /\ lag = 1
    /\ sparsity = 1
    /\ ltrCount = 0
    /\ rtlCount = 0
    /\ motion = buffer
    /\ error = ""
    /\ sinceTouch = DebounceInterval
    /\ op = "new"
    /\ ret = TRUE
    /\ wrapped = FALSE
    /\ motion0 = buffer
    /\ stamped = {}
    /\ quiet = TRUE
    /\ idle = 0

InitRun == \E buffer \in InitBuffers : InitRunWith(buffer)

\* the same counter in static storage, where _motion starts zeroed
InitStatic == InitRunWith(ZeroBuffer)

NextRun ==
    \/ ~wrapped /\ t < MaxTRun /\ update
    \/ crossedFromLeftToRight
    \/ crossedFromRightToLeft
    \/ wait

\* the same, followed through the wrap of the tick and of the counters
NextLong ==
    \/ TickFollowed(MaxTRun) /\ update
    \/ updateIdleRun
    \/ crossedFromLeftToRight
    \/ crossedFromRightToLeft
    \/ crossedFromLeftToRightRun
    \/ crossedFromRightToLeftRun
    \/ wait

SpecRun == InitRun /\ [][NextRun]_vars

SpecStatic == InitStatic /\ [][NextRun]_vars

SpecLong == InitStatic /\ [][NextLong]_vars

\* a counter after lineAt(16), lag(1) and sparsity(2): the line is column 2,
\* bin -1 is columns 0 and 1, bin +1 columns 4 and 5
InitBand ==
    /\ lineX = BandLine
    /\ miny = 0
    /\ maxy = DefaultMaxY
    /\ t = 0
    /\ lag = 1
    /\ sparsity = 2
    /\ ltrCount = 0
    /\ rtlCount = 0
    /\ motion \in InitBuffers
    /\ error = ""
    /\ sinceTouch = DebounceInterval
    /\ op = "new"
    /\ ret = TRUE
    /\ wrapped = FALSE
    /\ motion0 = motion
    /\ stamped = {}
    /\ quiet = TRUE
    /\ idle = 0

SpecBand == InitBand /\ [][NextRun]_vars

(***************************************************************************)
(* Properties                                                              *)
(***************************************************************************)

\* bins -3, -2, -1, +1 were stamped by update(), in that order of time
LtrOrder ==
    /\ stamped = {-3, -2, -1, 1}
    /\ 0 < motion[-3]
    /\ motion[-3] < motion[-2]
    /\ motion[-2] < motion[-1]
    /\ motion[-1] < motion[1]

\* bins +3, +2, +1, -1 were stamped by update(), in that order of time
RtlOrder ==
    /\ stamped = {3, 2, 1, -1}
    /\ 0 < motion[3]
    /\ motion[3] < motion[2]
    /\ motion[2] < motion[1]
    /\ motion[1] < motion[-1]

\* a left-to-right sweep over a zeroed buffer, each stamp within the lag of
\* the one before, the last stamp made by the update just returned
LtrSweep ==
    /\ motion0 = ZeroBuffer
    /\ LtrOrder
    /\ motion[-2] - motion[-3] <= lag
    /\ motion[-1] - motion[-2] <= lag
    /\ motion[1] - motion[-1] <= lag
    /\ t = motion[1]
    /\ op = "update"
    /\ debounced

\* the mirrored right-to-left sweep
RtlSweep ==
    /\ motion0 = ZeroBuffer
    /\ RtlOrder
    /\ motion[2] - motion[3] <= lag
    /\ motion[1] - motion[2] <= lag
    /\ motion[-1] - motion[1] <= lag
    /\ t = motion[-1]
    /\ op = "update"
    /\ debounced

\* C1: after a strictly increasing sweep over bins -3, -2, -1, +1 of a zeroed
\* buffer, each stamp within the lag of the previous one, the next
\* crossedFromLeftToRight() returns true and adds one to the left-to-right
\* counter.
C1_LtrSweepIsCounted ==
    [][(LtrSweep /\ crossedFromLeftToRight)
          => (ret' = TRUE /\ ltrCount' = ltrCount + 1)]_vars

\* C2: after a strictly increasing sweep over bins +3, +2, +1, -1 of a zeroed
\* buffer, each stamp within the lag of the previous one, the next
\* crossedFromRightToLeft() returns true and adds one to the right-to-left
\* counter.
C2_RtlSweepIsCounted ==
    [][(RtlSweep /\ crossedFromRightToLeft)
          => (ret' = TRUE /\ rtlCount' = rtlCount + 1)]_vars

\* C3: while the buffer holds nothing but a strictly right-to-left sweep,
\* crossedFromLeftToRight() returns false and leaves its counter alone, at
\* the tick of the sweep and at every later one; the same holds for
\* crossedFromRightToLeft() over a strictly left-to-right sweep.
C3_SweepIsOneWay ==
    [][/\ (RtlOrder /\ crossedFromLeftToRight)
             => (ret' = FALSE /\ ltrCount' = ltrCount)
       /\ (LtrOrder /\ crossedFromRightToLeft)
             => (ret' = FALSE /\ rtlCount' = rtlCount)]_vars

\* C3 witness: a right-to-left sweep is in the buffer, a tick has passed
\* since its last stamp, and the left-to-right query has answered false with
\* the cooldown elapsed.
C3_Witness ==
    /\ RtlOrder
    /\ motion0 = ZeroBuffer
    /\ t > motion[-1]
    /\ op = "ltr"
    /\ ret = FALSE
    /\ debounced
    /\ ltrCount = 0

\* C4: a crossing query made before the cooldown has elapsed returns false
\* and changes neither counter nor the cooldown clock, whatever the buffer
\* holds.
C4_CooldownGatesQueries ==
    [][(~debounced /\ (crossedFromLeftToRight \/ crossedFromRightToLeft))
          => (ret' = FALSE /\ UNCHANGED <<ltrCount, rtlCount, sinceTouch>>)]_vars

\* C4 witness: the right-to-left query has answered false inside the cooldown
\* opened by a left-to-right acceptance, over a buffer it would accept.
C4_Witness ==
    /\ ~debounced
    /\ op = "rtl"
    /\ ret = FALSE
    /\ Accepts(RtlCrossed)
    /\ ltrCount = 1
    /\ rtlCount = 0

\* C5: update() fails exactly when the resolved line is left of column 1 or
\* the resolved lower row is not under the upper one; the edge test reports
\* first, the bounds test second; a successful update leaves the error
\* message empty.
C5_UpdateValidates ==
    [][/\ (update \/ updateIdleRun) =>
          /\ ret' = ~(ResolveX < 1 \/ BelowRow >= AboveRow)
          /\ ResolveX < 1 => error' = EdgeMessage
          /\ (ResolveX >= 1 /\ BelowRow >= AboveRow) => error' = BoundsMessage
          /\ ret' = TRUE => error' = ""
       /\ error' # error => (update \/ updateIdleRun)]_vars

\* C5 witness: an update has failed on the bounds test alone.
C5_Witness ==
    /\ op = "update"
    /\ ret = FALSE
    /\ error = BoundsMessage
    /\ ResolveX >= 1
    /\ BelowRow >= AboveRow

\* C6: a failed update() leaves the tick, the seven slots, both counters and
\* the cooldown clock as they were.
C6_FailedUpdateIsInert ==
    [][(Validate # "" /\ update)
          => (ret' = FALSE
              /\ UNCHANGED <<t, motion, ltrCount, rtlCount, sinceTouch>>)]_vars

\* C6 witness: an update has failed on a counter whose tick has advanced and
\* whose buffer holds a stamp of its own.
C6_Witness ==
    /\ op = "update"
    /\ ret = FALSE
    /\ t > 0
    /\ stamped # {}

\* C7: a successful update() moves the tick from t to t + 1 below 65000 and
\* from 65000 to 1, and touches neither counter; once the tick has left 0 it
\* stays within 1..65000.
C7_TickAdvancesOnce ==
    [][/\ (Validate = "" /\ update)
             => /\ t' = (IF t < 65000 THEN t + 1 ELSE 1)
                /\ UNCHANGED <<ltrCount, rtlCount>>
       /\ t >= 1 => t' \in 1..65000
       /\ t' \in 0..65000]_vars

\* C7 witness: the update at tick 65000 has returned and the tick is 1.
C7_Witness ==
    /\ wrapped
    /\ t = 1
    /\ op = "update"
    /\ ret = TRUE

\* C8: while update() has stamped one bin only, no query has returned true
\* and both counters are 0.
C8_OneBinNeverCounts ==
    Cardinality(stamped) = 1
        => /\ ltrCount = 0
           /\ rtlCount = 0
           /\ ~(op \in {"ltr", "rtl"} /\ ret = TRUE)

\* C9: on a counter that has only ever been shown frames without foreground,
\* every slot is 0 after each successful update, the error message is empty
\* and no query has been accepted.
C9_IdleKeepsBufferZero ==
    (quiet /\ t > 0)
        => /\ motion = ZeroBuffer
           /\ (op = "update" /\ ret = TRUE) => error = ""
           /\ ltrCount = 0
           /\ rtlCount = 0

\* C10: with no update() in between, a query that has just returned true
\* returns false when it is called again, however long the caller waits.
C10_OneAcceptancePerBuffer ==
    [][/\ (op = "ltr" /\ ret = TRUE /\ motion0 = ZeroBuffer
              /\ crossedFromLeftToRight) => ret' = FALSE
       /\ (op = "rtl" /\ ret = TRUE /\ motion0 = ZeroBuffer
              /\ crossedFromRightToLeft) => ret' = FALSE]_vars

\* C11: neither counter ever decreases; at the top of its 16-bit type an
\* accepted crossing leaves a counter where it is.
C11_CountersSaturate ==
    [][/\ ltrCount' >= ltrCount
       /\ rtlCount' >= rtlCount
       /\ (ltrCount = 65535 /\ crossedFromLeftToRight) => ltrCount' = 65535
       /\ (rtlCount = 65535 /\ crossedFromRightToLeft) => rtlCount' = 65535]_vars

\* C12: once 2 * lag + 1 successful updates in a row have stamped no bin,
\* a query made with the cooldown elapsed returns false, whether or not the
\* tick has wrapped since the stamps were written.
C12_OldStampsExpire ==
    [][(idle >= 2 * lag + 1 /\ debounced
           /\ (crossedFromLeftToRight \/ crossedFromRightToLeft))
          => ret' = FALSE]_vars

\* the score of "a after b" when expiry is decided by the stamp `old`
PairScore(a, b, old) ==
    IF motion[a] = 0 \/ motion[b] = 0 \/ old < t - 2 * lag THEN 0
    ELSE IF motion[a] > motion[b] /\ motion[a] - motion[b] <= lag THEN 10
    ELSE IF motion[a] = motion[b] THEN 1
    ELSE 0

LtrSum == gt(-2, -3) + gt(-1, -2) + gt(1, -1) + gt(2, 1)
RtlSum == gt(-2, -1) + gt(-1, 1) + gt(1, 2) + gt(2, 3)

\* C14: with the cooldown elapsed, a query returns true exactly when its sum
\* S of four pairwise scores has S > 20 and S mod 10 # 0, that is when S is
\* 21, 22 or 31; it then adds 1 to its own counter only and restarts the
\* cooldown; otherwise it changes nothing.
C14_SumRuleDecides ==
    [][/\ (debounced /\ crossedFromLeftToRight) =>
             /\ ret' = (LtrSum > 20 /\ LtrSum % 10 # 0)
             /\ ret' = (LtrSum \in {21, 22, 31})
             /\ ret' = TRUE => /\ ltrCount' = ltrCount + 1
                               /\ rtlCount' = rtlCount
                               /\ sinceTouch' = 0
             /\ ret' = FALSE => UNCHANGED <<ltrCount, rtlCount, sinceTouch>>
             /\ UNCHANGED <<t, motion, cfgVars, error>>
       /\ (debounced /\ crossedFromRightToLeft) =>
             /\ ret' = (RtlSum > 20 /\ RtlSum % 10 # 0)
             /\ ret' = (RtlSum \in {21, 22, 31})
             /\ ret' = TRUE => /\ rtlCount' = rtlCount + 1
                               /\ ltrCount' = ltrCount
                               /\ sinceTouch' = 0
             /\ ret' = FALSE => UNCHANGED <<ltrCount, rtlCount, sinceTouch>>
             /\ UNCHANGED <<t, motion, cfgVars, error>>]_vars

\* the columns of the grid that belong to the band of bin i
BandColumns(i) ==
    {col \in 0..(getWidth - 1) :
        \E j \in 0..(sparsity - 1) : col = i * sparsity + j + ResolveX}

\* the step is a successful update() on the frame fg
UpdatesOn(fg) ==
    /\ op' = "update"
    /\ Validate = ""
    /\ UpdateSucceeds(fg)
    /\ update

\* C15: before the tick has wrapped, a successful update() that finds
\* foreground, inside the vertical region, in any column of the band of a bin
\* whose slot holds a nonzero stamp older than tick - lag stamps that slot
\* with the current tick.
C15_StaleBinIsRestamped ==
    [][\A fg \in Frames : \A i \in Bins \ {0} :
          (/\ motion0 = ZeroBuffer
           /\ ~wrapped
           /\ t < TickCeiling
           /\ motion[i] # 0
           /\ motion[i] < NextTick(t) - lag
           /\ UpdatesOn(fg)
           /\ \E col \in BandColumns(i) : ColumnHit(fg, col))
          => motion'[i] = t']_vars

\* the first column of the band of bin i that lies in the grid
FirstColumn(i) ==
    CHOOSE col \in BandColumns(i) : \A other \in BandColumns(i) : col <= other

\* foreground shows, inside the vertical region, in the first column of the
\* band of bin i
HitsFirstColumn(fg, i) ==
    BandColumns(i) # {} /\ ColumnHit(fg, FirstColumn(i))

\* C16: at any tick, a successful update() that finds foreground in the
\* first in-grid column of the band of a bin that was never stamped (slot 0)
\* stamps the slot with the current tick.
C16_FreshBinIsStamped ==
    [][\A fg \in Frames : \A i \in Bins \ {0} :
          (/\ motion[i] = 0
           /\ i \notin stamped
           /\ UpdatesOn(fg)
           /\ HitsFirstColumn(fg, i))
          => motion'[i] = t']_vars

\* C17: once the tick has wrapped, a successful update() that finds
\* foreground in the first in-grid column of the band of a bin last stamped
\* before the wrap (its stamp is above the current tick) and more than lag
\* updates ago stamps the slot with the current tick.
C17_WrapKeepsNoBinFresh ==
    [][\A fg \in Frames : \A i \in Bins \ {0} :
          (/\ wrapped \/ t = TickCeiling
           /\ i \in stamped
           /\ motion[i] > NextTick(t)
           /\ idle > lag
           /\ UpdatesOn(fg)
           /\ HitsFirstColumn(fg, i))
          => motion'[i] = t']_vars

\* C18: a successful update() passes to isForeground only cells of the grid,
\* 0 <= col < width and 0 <= row < height.
C18_ProbesStayInGrid ==
    [][\A fg \in Frames :
          UpdatesOn(fg) =>
              \A cell \in Probes(fg, t') :
                  /\ 0 <= cell[1] /\ cell[1] < getWidth
                  /\ 0 <= cell[2] /\ cell[2] < getHeight]_vars

\* the columns dx + x of the band of bin i, j = 0 .. sparsity - 1
BandOffsets(i) == {i * sparsity + j + ResolveX : j \in 0..(sparsity - 1)}

\* C19: a step changes a slot only by setting it to the current tick, only
\* for a bin off the line, only if the slot was not within lag ticks of the
\* current tick, and only as a successful update() on a frame with foreground
\* in the band of that bin inside the vertical region; the slot of offset 0
\* keeps the value it had after construction; the queries and the setters
\* change neither the buffer nor the tick.
C19_UpdateWritesOnlyStamps ==
    [][/\ \A i \in Bins :
             motion'[i] # motion[i] =>
                 /\ i # 0
                 /\ motion'[i] = t'
                 /\ ~(motion[i] >= t' - lag)
                 /\ \E fg \in Frames :
                        /\ UpdatesOn(fg)
                        /\ \E col \in BandOffsets(i) : ColumnHit(fg, col)
       /\ motion'[0] = motion0[0]
       /\ (crossedFromLeftToRight \/ crossedFromRightToLeft \/ configure)
             => UNCHANGED <<t, motion>>]_vars

\* C19 witness: update() has just stamped a bin with the current tick, and
\* the slot of offset 0 still holds the nonzero value it was constructed with.
C19_Witness ==
    /\ op = "update"
    /\ ret = TRUE
    /\ \E i \in stamped : motion[i] = t /\ motion0[i] # t
    /\ motion0[0] # 0
    /\ motion[0] = motion0[0]

\* the buffer m mirrored around the line
Mirror(m) == [i \in Bins |-> m[-i]]

\* C20: crossedFromRightToLeft() answers, and counts on its own counter, as
\* crossedFromLeftToRight() does on the buffer mirrored around the line, at
\* the same tick, lag and cooldown.
C20_DetectorsAreMirrors ==
    [][/\ RtlCrossed = LtrCrossedOn(Mirror(motion))
       /\ crossedFromLeftToRight =>
             /\ ret' = (debounced /\ Accepts(LtrCrossedOn(motion)))
             /\ ltrCount' = IF ret' THEN (ltrCount + 1) % 65536 ELSE ltrCount
       /\ crossedFromRightToLeft =>
             /\ ret' = (debounced /\ Accepts(LtrCrossedOn(Mirror(motion))))
             /\ rtlCount' = IF ret' THEN (rtlCount + 1) % 65536 ELSE rtlCount]_vars

\* C20 witness: crossedFromRightToLeft() has accepted a buffer written by
\* update() that is not its own mirror image and that crossedFromLeftToRight()
\* scores differently.
C20_Witness ==
    /\ op = "rtl"
    /\ ret = TRUE
    /\ motion0 = ZeroBuffer
    /\ Mirror(motion) # motion
    /\ RtlCrossed # LtrCrossed
    /\ Accepts(LtrCrossedOn(Mirror(motion)))
====
